---------------------------- MODULE Spec2Model ----------------------------
(***************************************************************************)
(* A model of dongle/utils.py: get_dev, boot and flash_firmware, and of    *)
(* the two command-line entry points of dongle/cli.py.                     *)
(*                                                                         *)
(* One behaviour is one process run.  The run is either `dongle boot`      *)
(* (cli.py:17-18 -> utils.boot) or a call of flash_firmware                *)
(* (cli.py:29-30, utils.py:284).  Every call into dongle.cc2538_bsl        *)
(* (CommandInterface, FirmwareFile, CC26xx, CC2538) and every GPIO call is *)
(* one step; the step is appended to a log so that orderings can be read   *)
(* off the state.                                                          *)
(*                                                                         *)
(* dongle.cc2538_bsl is not part of the sources at hand.  What its calls   *)
(* can do is taken from the specification's Transport contract: a call     *)
(* returns (a truthy or a falsy value where the code tests it) or raises   *)
(* a fault, which is an Exception.                                         *)
(*                                                                         *)
(* conf is the dictionary of utils.py:108-125.  The code assigns literal   *)
(* values (DefaultConf); the model lets the flags that guard the stages of *)
(* flash_firmware range over both values for a direct call, so that every  *)
(* guarded block of the function is exercised.  boot's nested call keeps   *)
(* the literal values.                                                     *)
(***************************************************************************)
EXTENDS Integers, Sequences, FiniteSets, TLC

VARIABLES
    entry,      \* "boot" or "flash": which entry point runs
    dev_type,   \* GPIO.RPI_INFO["TYPE"], "unknow" when there is none
    fs,         \* the device paths present on the filesystem
    firmware,   \* boot's firmware argument / flash_firmware's firmware_path
    exit_,      \* flash_firmware's exit_ parameter
    conf,       \* flash_firmware's conf dictionary (address and baud are assigned)
    bpc,        \* position in boot
    dev,        \* boot's local dev
    gpio,       \* the GPIO calls made so far, in order
    bslpin,     \* level of the bootloader-select line
    rstpin,     \* level of the reset line
    pc,         \* position in flash_firmware
    trace,      \* the calls flash_firmware made so far, in order
    ser,        \* the serial port of the CommandInterface: open?, baud
    image,      \* the local name firmware: "unbound" or "loaded"
    chip_id,    \* flash_firmware's chip_id
    device,     \* flash_firmware's device: "unbound", "CC26xx" or "CC2538"
    crc_target, \* flash_firmware's crc_target
    i,          \* the read loop's index
    err,        \* the exception raised inside flash_firmware's try, if any
    result      \* what the caller of flash_firmware gets

vars == << entry, dev_type, fs, firmware, exit_, conf, bpc, dev, gpio, bslpin,
           rstpin, pc, trace, ser, image, chip_id, device, crc_target, i, err,
           result >>

bootVars == << bpc, dev, gpio, bslpin, rstpin >>
envVars == << entry, dev_type, fs, firmware, exit_ >>

----------------------------------------------------------------------------
(* Bounds *)

\* conf["len"], the number of bytes the read stage reads (0x80000 in the code).
MaxReadLen == 5

----------------------------------------------------------------------------
(* Values *)

\* Python's None for conf["address"].
None == -1

NoFirmware == "None"

GenericDev == "/dev/ttyUSB0"

\* utils.py:44
devs == [t \in {"Pi 3 Model B", "Jetson Nano"} |->
            IF t = "Pi 3 Model B" THEN "ttyS0" ELSE "ttyTHS1"]

DevTypes == {"Pi 3 Model B", "Jetson Nano", "Jetson Xavier", "unknow"}

Paths == {"/dev/ttyUSB0", "/dev/ttyS0", "/dev/ttyTHS1"}

\* cc2538_bsl.CHIP_ID_STRS: the ids of the CC2538.
CHIP_ID_STRS == {47460, 47461}

\* The ids a target may answer: a known one and an unknown one.
TargetChipIds == {47460, 61440}

\* FirmwareFile.crc32() of the image at hand, in hexadecimal.
FirmwareCrc == "0x8bb98613"

\* What the target may answer to the CRC command.
CrcValues == {"0x8bb98613", "0xdeadbeef"}

HighBaud == 1000000

MsgConnect == "Can't connect to target. Ensure boot loader is started. (no answer on synch sequence)"
MsgResynch == "Can't connect to target after clock source switch. (Check external crystal)"
MsgXOsc == "Can't switch target to external clock source. (Try forcing speed)"
MsgErase == "Erase failed"
MsgWrite == "Write failed"
MsgCrc == "NO CRC32 match"
MsgSetAddress == "Set address failed"

NoErr == [type |-> "none", msg |-> "", at |-> ""]

\* utils.py:108-125
DefaultConf ==
    [ port |-> GenericDev, baud |-> 115200, force_speed |-> 0, address |-> None,
      erase |-> 1, write |-> 1, erase_page |-> 0, verify |-> 1, read |-> 0,
      len |-> MaxReadLen, ieee_address |-> 0, disable_bootloader |-> 0 ]

\* Every value of the flags that guard a stage.
Confs ==
    { [ DefaultConf EXCEPT !.force_speed = f[1], !.erase = f[2], !.write = f[3],
                           !.erase_page = f[4], !.verify = f[5], !.read = f[6],
                           !.ieee_address = f[7], !.disable_bootloader = f[8],
                           !.address = a ] :
        f \in [1..8 -> {0, 1}], a \in {None, 4096} }


----------------------------------------------------------------------------
(* get_dev *)

\* os.path.exists(path)
exists(path) == path \in fs

\* get_dev testing the alternate path's presence instead of the generic
\* path's absence.
get_dev_altExists ==
    IF dev_type \in DOMAIN devs /\ exists("/dev/" \o devs[dev_type])
    THEN "/dev/" \o devs[dev_type]
    ELSE GenericDev

\* get_dev without the test of the generic path's existence.
get_dev_noExists ==
    IF dev_type \in DOMAIN devs
    THEN "/dev/" \o devs[dev_type]
    ELSE GenericDev

\* utils.py:42-50
get_dev ==
    IF dev_type \in DOMAIN devs /\ ~exists(GenericDev)
    THEN "/dev/" \o devs[dev_type]
    ELSE GenericDev

----------------------------------------------------------------------------
(* flash_firmware: the guards of its stages *)

\* NeedsFirmware with the image loaded whatever the flags are.
NeedsFirmware_always(c) == TRUE

\* utils.py:134
NeedsFirmware(c) == c.write # 0 \/ c.verify # 0

\* cc2538_bsl: Chip.has_cmd_set_xosc is False, CC2538 sets it True.
has_cmd_set_xosc(d) == d = "CC2538"

\* cc2538_bsl: flash_start_addr of CC2538 is 0x00200000, of CC26xx 0.
flash_start_addr(d) == IF d = "CC2538" THEN 2097152 ELSE 0

\* utils.py:164
SpeedUpgrade(c, d) == c.force_speed # 1 /\ has_cmd_set_xosc(d)

\* utils.py:243-244, 251: the number of 4-byte reads.
Words(c) == (c.len + 3) \div 4

\* utils.py:270-273
From270(c) == IF c.disable_bootloader # 0 THEN "L271" ELSE "L273"

\* utils.py:240
From240(c) == IF c.read # 0 THEN "L250" ELSE From270(c)

\* utils.py:226
From226(c) == IF c.ieee_address # 0 THEN "L235" ELSE From240(c)

\* utils.py:210
From210(c) == IF c.verify # 0 THEN "L215" ELSE From226(c)

\* From202 with the verify stage ahead of the write stage.
From202_verifyFirst(c) == IF c.verify # 0 THEN "L215" ELSE From226(c)

\* utils.py:202
From202(c) == IF c.write # 0 THEN "L205" ELSE From210(c)

\* utils.py:194
From194(c) == IF c.erase_page # 0 THEN "L199" ELSE From202(c)

\* utils.py:187
From187(c) == IF c.erase # 0 THEN "L189" ELSE From194(c)

\* utils.py:164
From164(c, d) == IF SpeedUpgrade(c, d) THEN "L165" ELSE From187(c)

\* utils.py:134-150
From134(c) == IF NeedsFirmware(c) THEN "L136" ELSE "L150"

----------------------------------------------------------------------------
(* flash_firmware: its steps *)

\* One call of a collaborator, as the log keeps it.
Call(op, arg, res) ==
    [op |-> op, arg |-> arg, res |-> res,
     baud |-> IF ser.open THEN ser.baud ELSE 0]

\* An Exception raised at the current position: control goes to utils.py:275.
Raised(type, msg) ==
    /\ err' = [type |-> type, msg |-> msg, at |-> pc]
    /\ pc' = "L275"

\* A call that returns or raises; its value, if any, is not tested.
Plain(label, op, arg, next) ==
    /\ pc = label
    /\ \E res \in {"ok", "raise"} :
        /\ trace' = Append(trace, Call(op, arg, res))
        /\ IF res = "ok"
           THEN pc' = next /\ err' = err
           ELSE Raised("Fault", op)

\* A call whose value the code tests: truthy, falsy (the code raises
\* CmdException(msg)), or a fault.
Tested(label, op, arg, next, msg) ==
    /\ pc = label
    /\ \E res \in {"ok", "fail", "raise"} :
        /\ trace' = Append(trace, Call(op, arg, res))
        /\ CASE res = "ok" -> pc' = next /\ err' = err
             [] res = "fail" -> Raised("CmdException", msg)
             [] res = "raise" -> Raised("Fault", op)

\* utils.py:127-128
L128_open ==
    /\ pc = "L128"
    /\ \E res \in {"ok", "raise"} :
        /\ trace' = Append(trace, [op |-> "open", arg |-> "", res |-> res,
                                   baud |-> conf.baud])
        /\ IF res = "ok"
           THEN /\ ser' = [open |-> TRUE, baud |-> conf.baud]
                /\ pc' = "L129"
                /\ err' = err
           ELSE /\ Raised("Fault", "open")
                /\ ser' = ser
    /\ UNCHANGED << envVars, bootVars, conf, image, chip_id, device, crc_target,
                    i, result >>

\* utils.py:129-134
L129_invoke_bootloader ==
    /\ Plain("L129", "invoke_bootloader", "", From134(conf))
    /\ UNCHANGED << envVars, bootVars, conf, ser, image, chip_id, device,
                    crc_target, i, result >>

\* utils.py:136
L136_FirmwareFile ==
    /\ Plain("L136", "FirmwareFile", "firmware_path", "L140")
    /\ image' = IF pc' = "L140" THEN "loaded" ELSE image
    /\ UNCHANGED << envVars, bootVars, conf, ser, chip_id, device, crc_target,
                    i, result >>

\* L140_sendSynch with its value not tested.
L140_sendSynch_untested ==
    /\ pc = "L140"
    /\ \E res \in {"ok", "fail", "raise"} :
        /\ trace' = Append(trace, Call("sendSynch", "", res))
        /\ IF res = "raise"
           THEN Raised("Fault", "sendSynch")
           ELSE pc' = "L150" /\ err' = err
    /\ UNCHANGED << envVars, bootVars, conf, ser, image, chip_id, device,
                    crc_target, i, result >>

\* utils.py:140-144
L140_sendSynch ==
    /\ Tested("L140", "sendSynch", "", "L150", MsgConnect)
    /\ UNCHANGED << envVars, bootVars, conf, ser, image, chip_id, device,
                    crc_target, i, result >>

\* utils.py:150
L150_cmdGetChipId ==
    /\ pc = "L150"
    /\ \/ \E id \in TargetChipIds :
            /\ chip_id' = id
            /\ trace' = Append(trace, Call("cmdGetChipId", "", "ok"))
            /\ pc' = "L153"
            /\ err' = err
       \/ /\ trace' = Append(trace, Call("cmdGetChipId", "", "raise"))
          /\ Raised("Fault", "cmdGetChipId")
          /\ chip_id' = chip_id
    /\ UNCHANGED << envVars, bootVars, conf, ser, image, device, crc_target, i,
                    result >>

\* Variant without the fallback for an id that is not in the table.
Variant_noFallback(id) == "CC2538"

\* utils.py:151-158
Variant(id) == IF id \in CHIP_ID_STRS THEN "CC2538" ELSE "CC26xx"

\* utils.py:151-164
L153_device ==
    /\ pc = "L153"
    /\ LET d == Variant(chip_id)
           c == IF conf.address = None
                THEN [conf EXCEPT !.address = flash_start_addr(d)]
                ELSE conf
       IN \/ /\ trace' = Append(trace, Call(d, "cmd", "ok"))
             /\ device' = d
             /\ conf' = c
             /\ pc' = From164(c, d)
             /\ err' = err
          \/ /\ trace' = Append(trace, Call(d, "cmd", "raise"))
             /\ Raised("Fault", d)
             /\ UNCHANGED << device, conf >>
    /\ UNCHANGED << envVars, bootVars, ser, image, chip_id, crc_target, i,
                    result >>

\* utils.py:165, 181-185
L165_cmdSetXOsc ==
    /\ Tested("L165", "cmdSetXOsc", "", "L166", MsgXOsc)
    /\ UNCHANGED << envVars, bootVars, conf, ser, image, chip_id, device,
                    crc_target, i, result >>

\* L166_close without the assignment of the higher baud rate.
L166_close_keepBaud ==
    /\ Plain("L166", "close", "", "L168")
    /\ IF pc' = "L168"
       THEN ser' = [ser EXCEPT !.open = FALSE]
       ELSE ser' = ser
    /\ UNCHANGED << envVars, bootVars, conf, image, chip_id, device, crc_target,
                    i, result >>

\* utils.py:166-167
L166_close ==
    /\ Plain("L166", "close", "", "L168")
    /\ IF pc' = "L168"
       THEN /\ ser' = [ser EXCEPT !.open = FALSE]
            /\ conf' = [conf EXCEPT !.baud = HighBaud]
       ELSE UNCHANGED << ser, conf >>
    /\ UNCHANGED << envVars, bootVars, image, chip_id, device, crc_target, i,
                    result >>

\* utils.py:168
L168_open ==
    /\ pc = "L168"
    /\ \E res \in {"ok", "raise"} :
        /\ trace' = Append(trace, [op |-> "open", arg |-> "", res |-> res,
                                   baud |-> conf.baud])
        /\ IF res = "ok"
           THEN /\ ser' = [open |-> TRUE, baud |-> conf.baud]
                /\ pc' = "L175"
                /\ err' = err
           ELSE /\ Raised("Fault", "open")
                /\ ser' = ser
    /\ UNCHANGED << envVars, bootVars, conf, image, chip_id, device, crc_target,
                    i, result >>

\* L175_sendSynch with its value not tested.
L175_sendSynch_untested ==
    /\ pc = "L175"
    /\ \E res \in {"ok", "fail", "raise"} :
        /\ trace' = Append(trace, Call("sendSynch", "", res))
        /\ IF res = "raise"
           THEN Raised("Fault", "sendSynch")
           ELSE pc' = From187(conf) /\ err' = err
    /\ UNCHANGED << envVars, bootVars, conf, ser, image, chip_id, device,
                    crc_target, i, result >>

\* utils.py:175-180
L175_sendSynch ==
    /\ Tested("L175", "sendSynch", "", From187(conf), MsgResynch)
    /\ UNCHANGED << envVars, bootVars, conf, ser, image, chip_id, device,
                    crc_target, i, result >>

\* L189_erase with its value not tested.
L189_erase_untested ==
    /\ pc = "L189"
    /\ \E res \in {"ok", "fail", "raise"} :
        /\ trace' = Append(trace, Call("erase", "", res))
        /\ IF res = "raise"
           THEN Raised("Fault", "erase")
           ELSE pc' = From194(conf) /\ err' = err
    /\ UNCHANGED << envVars, bootVars, conf, ser, image, chip_id, device,
                    crc_target, i, result >>

\* utils.py:187-192
L189_erase ==
    /\ Tested("L189", "erase", "", From194(conf), MsgErase)
    /\ UNCHANGED << envVars, bootVars, conf, ser, image, chip_id, device,
                    crc_target, i, result >>

\* utils.py:194-200: the value of cmdEraseMemory is not tested.
L199_cmdEraseMemory ==
    /\ pc = "L199"
    /\ \E res \in {"ok", "fail", "raise"} :
        /\ trace' = Append(trace, Call("cmdEraseMemory", "erase_range", res))
        /\ IF res = "raise"
           THEN Raised("Fault", "cmdEraseMemory")
           ELSE pc' = From202(conf) /\ err' = err
    /\ UNCHANGED << envVars, bootVars, conf, ser, image, chip_id, device,
                    crc_target, i, result >>

\* A use of the local name firmware (utils.py:205, 213, 215) when line 136
\* did not bind it raises NameError.
FirmwareBound == image = "loaded"

\* utils.py:202-208
L205_writeMemory ==
    /\ IF FirmwareBound
       THEN Tested("L205", "writeMemory", "firmware.bytes", From210(conf),
                   MsgWrite)
       ELSE pc = "L205" /\ Raised("NameError", "firmware") /\ trace' = trace
    /\ UNCHANGED << envVars, bootVars, conf, ser, image, chip_id, device,
                    crc_target, i, result >>

\* utils.py:217-220
AfterCrc(local, target) == IF local = target THEN From226(conf) ELSE "L220"

\* utils.py:210-220
L215_crc ==
    /\ pc = "L215"
    /\ IF FirmwareBound
       THEN LET t == Append(trace, Call("firmware.crc32", "", "ok"))
            IN \/ \E v \in CrcValues :
                    /\ crc_target' = v
                    /\ trace' = Append(t, Call("crc", "len(firmware.bytes)", "ok"))
                    /\ pc' = AfterCrc(FirmwareCrc, v)
                    /\ err' = err
               \/ /\ trace' = Append(t, Call("crc", "len(firmware.bytes)", "raise"))
                  /\ Raised("Fault", "crc")
                  /\ crc_target' = crc_target
       ELSE Raised("NameError", "firmware") /\ UNCHANGED << trace, crc_target >>
    /\ UNCHANGED << envVars, bootVars, conf, ser, image, chip_id, device, i,
                    result >>

\* L220_cmdReset without the reset: the mismatch is raised at once.
L220_cmdReset_skipped ==
    /\ pc = "L220"
    /\ Raised("Exception", MsgCrc)
    /\ UNCHANGED << envVars, bootVars, conf, trace, ser, image, chip_id, device,
                    crc_target, i, result >>

\* L220_cmdReset without the raise after the reset: the run goes on.
L220_cmdReset_continues ==
    /\ Plain("L220", "cmdReset", "", From226(conf))
    /\ UNCHANGED << envVars, bootVars, conf, ser, image, chip_id, device,
                    crc_target, i, result >>

\* utils.py:220-224
L220_cmdReset ==
    /\ pc = "L220"
    /\ \E res \in {"ok", "raise"} :
        /\ trace' = Append(trace, Call("cmdReset", "", res))
        /\ IF res = "ok"
           THEN Raised("Exception", MsgCrc)
           ELSE Raised("Fault", "cmdReset")
    /\ UNCHANGED << envVars, bootVars, conf, ser, image, chip_id, device,
                    crc_target, i, result >>

\* utils.py:226-238
L235_writeMemory ==
    /\ Tested("L235", "writeMemory", "ieee_addr_bytes", From240(conf),
              MsgSetAddress)
    /\ UNCHANGED << envVars, bootVars, conf, ser, image, chip_id, device,
                    crc_target, i, result >>

\* utils.py:251, 267-270: after the i-th read
AfterRead(n) == IF n < Words(conf) THEN "L253" ELSE From270(conf)

\* utils.py:240-251
L250_open_wb ==
    /\ Plain("L250", "open_wb", "firmware_path", AfterRead(0))
    /\ i' = 0
    /\ UNCHANGED << envVars, bootVars, conf, ser, image, chip_id, device,
                    crc_target, result >>

\* utils.py:251-266
L253_read_memory ==
    /\ Plain("L253", "read_memory", "", AfterRead(i + 1))
    /\ i' = IF pc' = "L275" THEN i ELSE i + 1
    /\ UNCHANGED << envVars, bootVars, conf, ser, image, chip_id, device,
                    crc_target, result >>

\* After271 with the disable-bootloader block ahead of the read stage.
After271_thenRead(c) == IF c.read # 0 THEN "L250" ELSE "L273"

\* utils.py:271-273: after disable_bootloader comes the final reset.
After271(c) == "L273"

\* utils.py:270-271
L271_disable_bootloader ==
    /\ Plain("L271", "disable_bootloader", "", After271(conf))
    /\ UNCHANGED << envVars, bootVars, conf, ser, image, chip_id, device,
                    crc_target, i, result >>

\* utils.py:273: the last statement of the try block; the function returns None.
L273_cmdReset ==
    /\ Plain("L273", "cmdReset", "", "done")
    /\ result' = IF pc' = "done" THEN "None" ELSE result
    /\ UNCHANGED << envVars, bootVars, conf, ser, image, chip_id, device,
                    crc_target, i >>

\* utils.py:278-279: exit("ERROR: ...") raises SystemExit; without it the
\* function falls off its end and returns None.
Handled(e) == IF e THEN "SystemExit" ELSE "None"

\* utils.py:275-279
L275_except ==
    /\ pc = "L275"
    /\ pc' = "done"
    /\ result' = Handled(exit_)
    /\ UNCHANGED << envVars, bootVars, conf, trace, ser, image, chip_id, device,
                    crc_target, i, err >>

\* The positions inside flash_firmware's body.
Running == pc \notin {"idle", "done"}

\* An operator interrupt while flash_firmware runs: KeyboardInterrupt is no
\* Exception, so utils.py:275 does not catch it and it leaves the function.
flash_KeyboardInterrupt ==
    /\ Running
    /\ pc' = "done"
    /\ result' = "KeyboardInterrupt"
    /\ UNCHANGED << envVars, bootVars, conf, trace, ser, image, chip_id, device,
                    crc_target, i, err >>

flash_firmware ==
    \/ L128_open
    \/ L129_invoke_bootloader
    \/ L136_FirmwareFile
    \/ L140_sendSynch
    \/ L150_cmdGetChipId
    \/ L153_device
    \/ L165_cmdSetXOsc
    \/ L166_close
    \/ L168_open
    \/ L175_sendSynch
    \/ L189_erase
    \/ L199_cmdEraseMemory
    \/ L205_writeMemory
    \/ L215_crc
    \/ L220_cmdReset
    \/ L235_writeMemory
    \/ L250_open_wb
    \/ L253_read_memory
    \/ L271_disable_bootloader
    \/ L273_cmdReset
    \/ L275_except
    \/ flash_KeyboardInterrupt

----------------------------------------------------------------------------
(* boot *)

flashVars == << trace, ser, image, chip_id, device, crc_target, i, err >>

\* UsesGpio with the test of the device path dropped.
UsesGpio_always(d) == TRUE

\* utils.py:61: "ttyUSB0" not in dev, over the paths get_dev returns.
UsesGpio(d) == d \notin {"/dev/ttyUSB0"}

\* utils.py:68: Python's truth value of the firmware argument.
Truthy(f) == f \notin {NoFirmware, ""}

\* One GPIO call, as the log keeps it: the level it drives on each line
\* ("-" for a line it does not drive).
Gpio(call, bsl, rst) == [call |-> call, bsl |-> bsl, rst |-> rst]

\* utils.py:59-61
L59_get_dev ==
    /\ bpc = "L59"
    /\ dev' = get_dev
    /\ bpc' = IF UsesGpio(dev') THEN "L63" ELSE "SkipGpio"
    /\ UNCHANGED << envVars, conf, gpio, bslpin, rstpin, pc, flashVars, result >>

\* From68 with the test of the firmware argument dropped.
From68_always(f) == "L72"

\* utils.py:68, 78-82
From68(f) == IF Truthy(f) THEN "L72" ELSE "L82"

\* utils.py:63-68
L63_setup ==
    /\ bpc = "L63"
    /\ gpio' = gpio \o << Gpio("setwarnings", "-", "-"), Gpio("setmode", "-", "-"),
                          Gpio("setup", "HIGH", "HIGH") >>
    /\ bslpin' = "HIGH"
    /\ rstpin' = "HIGH"
    /\ bpc' = From68(firmware)
    /\ UNCHANGED << envVars, conf, dev, pc, flashVars, result >>

\* utils.py:72-73
L72_output ==
    /\ bpc = "L72"
    /\ gpio' = Append(gpio, Gpio("output", "LOW", "LOW"))
    /\ bslpin' = "LOW"
    /\ rstpin' = "LOW"
    /\ bpc' = "L74"
    /\ UNCHANGED << envVars, conf, dev, pc, flashVars, result >>

\* utils.py:74-75
L74_output ==
    /\ bpc = "L74"
    /\ gpio' = Append(gpio, Gpio("output", "-", "HIGH"))
    /\ rstpin' = "HIGH"
    /\ bpc' = "L77"
    /\ UNCHANGED << envVars, conf, dev, bslpin, pc, flashVars, result >>

\* utils.py:77, 91, 107-126: the call, with exit_ at its default
L77_flash_firmware ==
    /\ bpc = "L77"
    /\ pc = "idle"
    /\ conf' = [DefaultConf EXCEPT !.port = dev]
    /\ pc' = "L128"
    /\ UNCHANGED << envVars, bootVars, flashVars, result >>

\* utils.py:77-88: where control goes when flash_firmware is left.  Only
\* KeyboardInterrupt is caught by boot; SystemExit leaves boot.
AfterFlash(r) ==
    CASE r = "None" -> "L82"
      [] r = "KeyboardInterrupt" -> "L88"
      [] OTHER -> "SystemExit"

\* utils.py:77, 87
L77_return ==
    /\ bpc = "L77"
    /\ pc = "done"
    /\ bpc' = AfterFlash(result)
    /\ UNCHANGED << envVars, conf, dev, gpio, bslpin, rstpin, pc, flashVars,
                    result >>

\* L82_output driving both lines LOW, as line 72 does.
L82_output_bothLow ==
    /\ bpc = "L82"
    /\ gpio' = Append(gpio, Gpio("output", "LOW", "LOW"))
    /\ bslpin' = "LOW"
    /\ rstpin' = "LOW"
    /\ bpc' = "L84"
    /\ UNCHANGED << envVars, conf, dev, pc, flashVars, result >>

\* utils.py:82-83
L82_output ==
    /\ bpc = "L82"
    /\ gpio' = Append(gpio, Gpio("output", "HIGH", "LOW"))
    /\ bslpin' = "HIGH"
    /\ rstpin' = "LOW"
    /\ bpc' = "L84"
    /\ UNCHANGED << envVars, conf, dev, pc, flashVars, result >>

\* utils.py:84-85
L84_output ==
    /\ bpc = "L84"
    /\ gpio' = Append(gpio, Gpio("output", "-", "HIGH"))
    /\ rstpin' = "HIGH"
    /\ bpc' = "ReturnToRun"
    /\ UNCHANGED << envVars, conf, dev, bslpin, pc, flashVars, result >>

\* utils.py:67-87: the positions of boot's own statements in the try block.
InTry == {"L72", "L74", "L82", "L84"}

\* An operator interrupt at one of boot's own statements: caught at
\* utils.py:87 inside the try block, not caught before it.
boot_KeyboardInterrupt ==
    /\ bpc \in InTry \cup {"L59", "L63"}
    /\ bpc' = IF bpc \in InTry THEN "L88" ELSE "KeyboardInterrupt"
    /\ UNCHANGED << envVars, conf, dev, gpio, bslpin, rstpin, pc, flashVars,
                    result >>

\* utils.py:87-88
L88_pass ==
    /\ bpc = "L88"
    /\ bpc' = "Interrupted"
    /\ UNCHANGED << envVars, conf, dev, gpio, bslpin, rstpin, pc, flashVars,
                    result >>

boot ==
    \/ L59_get_dev
    \/ L63_setup
    \/ L72_output
    \/ L74_output
    \/ L77_flash_firmware
    \/ L77_return
    \/ L82_output
    \/ L84_output
    \/ boot_KeyboardInterrupt
    \/ L88_pass

----------------------------------------------------------------------------
(* The runs *)

InitLocals ==
    /\ dev = "unbound"
    /\ gpio = << >>
    /\ bslpin = "unset"
    /\ rstpin = "unset"
    /\ trace = << >>
    /\ ser = [open |-> FALSE, baud |-> 0]
    /\ image = "unbound"
    /\ chip_id = 0
    /\ device = "unbound"
    /\ crc_target = "unbound"
    /\ i = 0
    /\ err = NoErr
    /\ result = "running"

\* cli.py:17-18: `dongle boot [--firmware PATH]`
InitBoot ==
    /\ entry = "boot"
    /\ dev_type \in DevTypes
    /\ fs \in SUBSET Paths
    /\ firmware \in {NoFirmware, "", "fw.hex"}
    /\ exit_ = TRUE
    /\ conf = DefaultConf
    /\ bpc = "L59"
    /\ pc = "idle"

\* cli.py:29-30, utils.py:91: a call of flash_firmware
InitFlash ==
    /\ entry = "flash"
    /\ dev_type = "unknow"
    /\ fs = {GenericDev}
    /\ firmware = "fw.hex"
    /\ exit_ \in BOOLEAN
    /\ conf \in Confs
    /\ bpc = "none"
    /\ pc = "L128"

Init == (InitBoot \/ InitFlash) /\ InitLocals

Next == boot \/ flash_firmware

Spec == Init /\ [][Next]_vars

----------------------------------------------------------------------------
(* Reading the logs *)

\* The positions of the log at which op was called (with arg, unless arg is "").
Idx(op, arg) ==
    { k \in DOMAIN trace : trace[k].op = op /\ (arg = "" \/ trace[k].arg = arg) }

Once(S) == Cardinality(S) = 1

The(S) == CHOOSE k \in S : TRUE

LastCall == trace[Len(trace)]

\* flash_firmware was left by its own return or exit, not by an interrupt.
Ended == pc = "done" /\ result \in {"None", "SystemExit"}

\* The target answered the CRC command with a value other than the local one.
Mismatch == crc_target \notin {"unbound", FirmwareCrc}

\* The synchronize of the Connect stage: the one before the chip-id query.
ConnectSynch == { k \in Idx("sendSynch", "") : \A j \in Idx("cmdGetChipId", "") : k < j }

\* The synchronize of the speed upgrade: after a cmdSetXOsc that returned true.
UpgradeSynch ==
    { k \in Idx("sendSynch", "") :
        \E j \in Idx("cmdSetXOsc", "") : j < k /\ trace[j].res = "ok" }

\* The calls that touch the firmware image: loading it, reading its bytes,
\* its length or its checksum.
TouchesImage(e) ==
    \/ e.op \in {"FirmwareFile", "firmware.crc32"}
    \/ e.arg \in {"firmware.bytes", "len(firmware.bytes)"}

Outputs == SelectSeq(gpio, LAMBDA g : g.call = "output")

ReturnToRunSeq == << Gpio("output", "HIGH", "LOW"), Gpio("output", "-", "HIGH") >>

IsPrefix(s, t) == Len(s) <= Len(t) /\ \A k \in DOMAIN s : s[k] = t[k]

----------------------------------------------------------------------------
(* The claims *)

\* C1: with verify on, once the target's CRC32 differs from the local one
\* the only call that follows the CRC command is one reset; the run ends in
\* a failure raised at the verify stage's reset-and-raise (utils.py:220-224),
\* which is the "NO CRC32 match" Exception when the reset returned; the reset
\* is in the log before the failure reaches the handler, and no stage after
\* verify runs.
C1_VerifyMismatchResetsOnce ==
    Mismatch =>
        /\ conf.verify # 0
        /\ Once(Idx("crc", ""))
        /\ LET k == The(Idx("crc", ""))
           IN /\ Len(trace) <= k + 1
              /\ Len(trace) = k + 1 => LastCall.op = "cmdReset"
        /\ pc \in {"L220", "L275", "done"}
        /\ pc = "L220" => err = NoErr /\ Idx("cmdReset", "") = {}
        /\ pc = "L275" \/ Ended =>
              /\ Once(Idx("cmdReset", ""))
              /\ LastCall.op = "cmdReset"
              /\ err.at = "L220"
              /\ LastCall.res = "ok" => err = [type |-> "Exception", msg |-> MsgCrc, at |-> "L220"]
              /\ LastCall.res = "raise" => err.type = "Fault"
        /\ Ended => result = Handled(exit_)

C1_Witness ==
    /\ Ended
    /\ Mismatch
    /\ result = "SystemExit"
    /\ err.msg = MsgCrc
    /\ Idx("writeMemory", "firmware.bytes") # {}

\* C2: if the synchronize of the Connect stage returns false, the run ends
\* in the Connect failure and that synchronize is the last call of the run.
C2_ConnectFailureStops ==
    \A k \in ConnectSynch :
        trace[k].res = "fail" =>
            /\ k = Len(trace)
            /\ pc \in {"L275", "done"}
            /\ err = [type |-> "CmdException", msg |-> MsgConnect, at |-> "L140"]
            /\ Ended => result = Handled(exit_)
            /\ \A op \in {"cmdGetChipId", "cmdSetXOsc", "erase", "cmdEraseMemory",
                          "writeMemory", "crc", "read_memory",
                          "disable_bootloader", "cmdReset"} : Idx(op, "") = {}

C2_Witness ==
    /\ Ended
    /\ ConnectSynch # {}
    /\ LastCall.op = "sendSynch"
    /\ LastCall.res = "fail"
    /\ err.msg = MsgConnect

\* C3: if cmdSetXOsc returned true and the synchronize after the reopen at
\* 1,000,000 baud fails, the run ends in the speed-upgrade failure and no
\* erase, write or CRC command is issued in the run.
C3_ResynchFailureStops ==
    \A k \in UpgradeSynch :
        trace[k].res = "fail" =>
            /\ k = Len(trace)
            /\ trace[k].baud = HighBaud
            /\ trace[k - 1].op = "open" /\ trace[k - 2].op = "close"
            /\ pc \in {"L275", "done"}
            /\ err = [type |-> "CmdException", msg |-> MsgResynch, at |-> "L175"]
            /\ \A op \in {"erase", "cmdEraseMemory", "writeMemory", "crc"} :
                  Idx(op, "") = {}

C3_Witness ==
    /\ Ended
    /\ UpgradeSynch # {}
    /\ LastCall.op = "sendSynch"
    /\ LastCall.res = "fail"
    /\ err.msg = MsgResynch
    /\ conf.erase # 0 /\ conf.write # 0 /\ conf.verify # 0

\* The run of C4: erase, write and verify are on, flash_firmware was left
\* without an interrupt, every call it made succeeded and the target's CRC
\* equals the local one.
AllSucceeded ==
    /\ conf.erase # 0 /\ conf.write # 0 /\ conf.verify # 0
    /\ Ended
    /\ \A k \in DOMAIN trace : trace[k].res = "ok"
    /\ crc_target \in {"unbound", FirmwareCrc}

\* C4: in such a run invoke_bootloader, the Connect synchronize, the chip-id
\* query, the mass erase, the image write, the CRC command and the reset are
\* each called exactly once, in that order; the calls of a speed upgrade lie
\* between the chip-id query and the erase and occur only for a device with
\* the external-oscillator command when speed is not forced; the reset is
\* the last call; and the function returns without an error.
C4_SuccessPathOrder ==
    AllSucceeded =>
        LET ib == Idx("invoke_bootloader", "")
            gc == Idx("cmdGetChipId", "")
            er == Idx("erase", "")
            wr == Idx("writeMemory", "firmware.bytes")
            cr == Idx("crc", "")
            rs == Idx("cmdReset", "")
            up == Idx("cmdSetXOsc", "") \cup Idx("close", "")
                    \cup (Idx("sendSynch", "") \ ConnectSynch)
                    \cup (Idx("open", "") \ {1})
        IN  /\ Once(ib) /\ Once(ConnectSynch) /\ Once(gc) /\ Once(er)
            /\ Once(wr) /\ Once(cr) /\ Once(rs)
            /\ The(ib) < The(ConnectSynch)
            /\ The(ConnectSynch) < The(gc)
            /\ The(gc) < The(er)
            /\ The(er) < The(wr)
            /\ The(wr) < The(cr)
            /\ The(cr) < The(rs)
            /\ The(rs) = Len(trace)
            /\ \A k \in up :
                  /\ The(gc) < k /\ k < The(er)
                  /\ has_cmd_set_xosc(device)
                  /\ conf.force_speed # 1
            /\ Cardinality(Idx("cmdSetXOsc", "")) <= 1
            /\ Cardinality(Idx("sendSynch", "")) <= 2
            /\ result = "None"
            /\ err = NoErr

C4_Witness ==
    /\ AllSucceeded
    /\ result = "None"
    /\ crc_target = FirmwareCrc
    /\ Idx("cmdSetXOsc", "") # {}
    /\ LastCall.op = "cmdReset"

\* C5: a run of flash_firmware in which a stage failed or a call raised a
\* fault does not return None to its caller, as a successful run does.
C5_FailureSurfaced ==
    pc = "done" /\ err # NoErr => result # "None"

\* boot ended without an operator interrupt.
BootEnded == bpc \in {"SkipGpio", "ReturnToRun", "SystemExit"}

\* The last two GPIO calls are the return-to-run sequence.
ReturnedToRun ==
    /\ Len(gpio) >= 2
    /\ SubSeq(gpio, Len(gpio) - 1, Len(gpio)) = ReturnToRunSeq
    /\ bslpin = "HIGH" /\ rstpin = "HIGH"

\* C6: when boot took the GPIO path and ended without an operator
\* interrupt, the return-to-run sequence was performed, also when the flash
\* failed.
C6_ReturnToRunAlways ==
    entry = "boot" /\ BootEnded /\ UsesGpio(dev) => ReturnedToRun

\* C7: called with no firmware path (None, or the empty string, which the
\* code treats alike), boot never enters flash_firmware and
\* never drives bootloader-select LOW; the output calls it makes are those
\* of the return-to-run sequence, all of them once it ends in ReturnToRun.
C7_NoFirmwareNoFlash ==
    entry = "boot" /\ ~Truthy(firmware) =>
        /\ pc = "idle"
        /\ trace = << >>
        /\ bslpin # "LOW"
        /\ \A k \in DOMAIN gpio : gpio[k].bsl # "LOW"
        /\ IsPrefix(Outputs, ReturnToRunSeq)
        /\ bpc = "ReturnToRun" => Outputs = ReturnToRunSeq

C7_Witness ==
    /\ entry = "boot"
    /\ firmware = NoFirmware
    /\ bpc = "ReturnToRun"
    /\ Outputs = ReturnToRunSeq

\* C8: when get_dev resolved the generic USB-serial path, boot is in
\* SkipGpio: it made no GPIO call and did not enter flash_firmware, with
\* or without a firmware path.
C8_GenericDevSkipsGpio ==
    entry = "boot" /\ dev = GenericDev =>
        /\ bpc = "SkipGpio"
        /\ gpio = << >>
        /\ bslpin = "unset" /\ rstpin = "unset"
        /\ pc = "idle"
        /\ trace = << >>

C8_Witness ==
    /\ entry = "boot"
    /\ dev = GenericDev
    /\ bpc = "SkipGpio"
    /\ Truthy(firmware)
    /\ dev_type = "Pi 3 Model B"

\* C9: once boot has called get_dev: for board "Pi 3 Model B" with the
\* generic path absent dev is /dev/ttyS0; for every board with the generic
\* path present dev is /dev/ttyUSB0.
C9_GetDev ==
    dev # "unbound" =>
        /\ dev_type = "Pi 3 Model B" /\ ~exists(GenericDev) => dev = "/dev/ttyS0"
        /\ exists(GenericDev) => dev = "/dev/ttyUSB0"

C9_Witness ==
    /\ dev = "/dev/ttyS0"
    /\ dev_type = "Pi 3 Model B"
    /\ ~exists(GenericDev)
    /\ ~exists("/dev/ttyS0")

\* C10: with write and verify both off, the firmware image is never loaded
\* and no call reads its bytes, its length or its checksum.
C10_ImageUntouched ==
    conf.write = 0 /\ conf.verify = 0 =>
        /\ image = "unbound"
        /\ \A k \in DOMAIN trace : ~TouchesImage(trace[k])

C10_Witness ==
    /\ conf.write = 0 /\ conf.verify = 0
    /\ conf.erase # 0 /\ conf.read # 0 /\ conf.ieee_address # 0
    /\ conf.disable_bootloader # 0
    /\ Ended
    /\ result = "None"
    /\ err = NoErr
    /\ LastCall.op = "cmdReset"

\* C11: when loading the firmware image fails, no transport action of the
\* run has been performed yet: the port is not open and neither the
\* bootloader mode-entry command nor a synchronize was sent.
C11_LoadFailsBeforeConnect ==
    \A k \in Idx("FirmwareFile", "") :
        trace[k].res = "raise" =>
            /\ ~ser.open
            /\ \A j \in 1 .. k - 1 :
                  trace[j].op \notin {"open", "invoke_bootloader", "sendSynch"}

\* The positions of the Write and Verify stages (utils.py:202-224).
InWriteVerify == {"L205", "L215", "L220"}

\* C12: an operator interrupt while flash_firmware is inside its Write or
\* Verify stage does not cancel the run: from those positions the function
\* is not left by KeyboardInterrupt.
C12_NoCancelInWriteVerify ==
    [][(pc \in InWriteVerify) => (result' # "KeyboardInterrupt")]_vars

C14_NoRetry ==
    /\ \A op \in {"cmdGetChipId", "cmdSetXOsc", "erase", "crc",
                  "disable_bootloader", "cmdReset"} :
          Cardinality(Idx(op, "")) <= 1
    /\ Cardinality(Idx("writeMemory", "firmware.bytes")) <= 1
    /\ Cardinality(Idx("sendSynch", "")) <= 2
    /\ \A k \in Idx("sendSynch", "") :
          (\E j \in Idx("sendSynch", "") : j < k) =>
              /\ k > 3
              /\ trace[k - 3].op = "cmdSetXOsc" /\ trace[k - 3].res = "ok"
              /\ trace[k - 2].op = "close" /\ trace[k - 2].res = "ok"
              /\ trace[k - 1].op = "open" /\ trace[k - 1].res = "ok"

C14_Witness ==
    /\ Ended
    /\ Cardinality(Idx("sendSynch", "")) = 2
    /\ Mismatch
    /\ Once(Idx("cmdReset", ""))
    /\ Once(Idx("erase", ""))
    /\ Once(Idx("writeMemory", "firmware.bytes"))

\* C15: once disable_bootloader was called, the only call that follows it is
\* the final reset: no erase, write, CRC, unique-address write or read
\* comes after it.
C15_DisableBootloaderLast ==
    \A k \in Idx("disable_bootloader", "") :
        /\ Len(trace) <= k + 1
        /\ Len(trace) = k + 1 => LastCall.op = "cmdReset" /\ trace[k].res = "ok"
        /\ conf.disable_bootloader # 0

C15_Witness ==
    /\ Ended
    /\ result = "None"
    /\ err = NoErr
    /\ Idx("disable_bootloader", "") = {Len(trace) - 1}
    /\ LastCall.op = "cmdReset"
    /\ Idx("read_memory", "") # {}
    /\ Idx("writeMemory", "ieee_addr_bytes") # {}
    /\ Idx("crc", "") # {}

\* The calls of the erase, write and verify stages.
FlashCalls ==
    Idx("erase", "") \cup Idx("cmdEraseMemory", "")
        \cup Idx("writeMemory", "firmware.bytes") \cup Idx("crc", "")

\* C16: the oscillator switch is called only when force_speed is off and the
\* device has the command, and every erase, write and CRC call of such a
\* device is preceded by it; a switch that fails ends the run at once with
\* its failure; every erase, write and CRC call is made on an open port: at
\* 1,000,000 baud, after a close and a reopen, when the switch was called,
\* and at the configured 115200 baud, with no close or reopen, otherwise.
C16_SpeedUpgrade ==
    /\ Idx("cmdSetXOsc", "") # {} =>
          conf.force_speed # 1 /\ has_cmd_set_xosc(device)
    /\ \A k \in Idx("cmdSetXOsc", "") :
          trace[k].res = "fail" =>
              /\ k = Len(trace)
              /\ err = [type |-> "CmdException", msg |-> MsgXOsc, at |-> "L165"]
              /\ conf.baud = DefaultConf.baud
    /\ device # "unbound" /\ SpeedUpgrade(conf, device) =>
          \/ pc = "L165"
          \/ Idx("cmdSetXOsc", "") # {}
          \/ result = "KeyboardInterrupt" /\ LastCall.op = device
    /\ \A k \in FlashCalls :
          /\ ser.open
          /\ (conf.force_speed # 1 /\ has_cmd_set_xosc(device))
                <=> (\E j \in Idx("cmdSetXOsc", "") : j < k)
          /\ IF Idx("cmdSetXOsc", "") # {}
             THEN /\ trace[k].baud = HighBaud
                  /\ \E c \in Idx("close", ""), o \in Idx("open", "") :
                        /\ The(Idx("cmdSetXOsc", "")) < c
                        /\ c < o
                        /\ o < k
                        /\ trace[o].baud = HighBaud
             ELSE /\ trace[k].baud = DefaultConf.baud
                  /\ Idx("close", "") = {}
                  /\ Idx("open", "") = {1}

C16_Witness ==
    /\ Ended
    /\ result = "None"
    /\ Idx("cmdSetXOsc", "") # {}
    /\ Idx("erase", "") # {}
    /\ Idx("writeMemory", "firmware.bytes") # {}
    /\ \E k \in Idx("crc", "") : trace[k].baud = HighBaud

\* A mass erase or an image write that failed (returned false or raised).
FailedEraseOrWrite ==
    { k \in Idx("erase", "") \cup Idx("writeMemory", "firmware.bytes") :
        trace[k].res # "ok" }

\* C17: a failed mass erase or image write is the last call of its run (no
\* write after a failed erase, no CRC after a failed write, no reset), and
\* a reset is called only when no call before it failed: at the end of the
\* success path or after a CRC mismatch.
C17_EraseWriteFailureTerminal ==
    /\ \A k \in FailedEraseOrWrite :
          /\ k = Len(trace)
          /\ pc \in {"L275", "done"}
          /\ err.type \in {"CmdException", "Fault"}
          /\ trace[k].res = "fail" =>
                err.msg = IF trace[k].op = "erase" THEN MsgErase ELSE MsgWrite
    /\ \A k \in Idx("cmdReset", "") :
          /\ FailedEraseOrWrite = {}
          /\ \A j \in 1 .. k - 1 :
                trace[j].res = "ok" \/ trace[j].op = "cmdEraseMemory"
          /\ IF Mismatch THEN pc \in {"L275", "done"} /\ k = Len(trace)
             ELSE k = Len(trace)

C17_Witness ==
    /\ Ended
    /\ LastCall.op = "writeMemory"
    /\ LastCall.arg = "firmware.bytes"
    /\ LastCall.res = "fail"
    /\ Idx("erase", "") # {}
    /\ conf.verify # 0
    /\ err.msg = MsgWrite

\* The board is known to get_dev and this is its alternate device path.
KnownBoard == dev_type \in DOMAIN devs

AltDev == "/dev/" \o devs[dev_type]

\* C18 as stated: get_dev returns the alternate path exactly when the board
\* is known and the alternate path is present on the filesystem, and the
\* generic path in every other case.
C18_AltWhenPresent ==
    dev # "unbound" =>
        IF KnownBoard /\ exists(AltDev) THEN dev = AltDev ELSE dev = GenericDev

\* C18 as amended: get_dev returns the alternate path exactly when the board
\* is known and the generic path is absent from the filesystem, whether or
\* not the alternate path is present, and the generic path in every other
\* case.
C18_AltWhenGenericAbsent ==
    dev # "unbound" =>
        /\ dev \in {GenericDev, "/dev/ttyS0", "/dev/ttyTHS1"}
        /\ dev # GenericDev <=> KnownBoard /\ GenericDev \notin fs
        /\ dev # GenericDev => dev = AltDev

C18_Witness ==
    /\ dev = "/dev/ttyTHS1"
    /\ dev_type = "Jetson Nano"
    /\ fs = {}

\* The GPIO calls up to the call of flash_firmware: both lines set up as
\* outputs at HIGH, both driven LOW together, reset released HIGH.
EnterBootloaderSeq ==
    << Gpio("setwarnings", "-", "-"), Gpio("setmode", "-", "-"),
       Gpio("setup", "HIGH", "HIGH"), Gpio("output", "LOW", "LOW"),
       Gpio("output", "-", "HIGH") >>

\* C19: in boot, flash_firmware is entered only with a firmware path, on the
\* GPIO path, after exactly the set-up and enter-bootloader calls, with
\* bootloader-select LOW and reset HIGH at the call; and when boot ends in
\* ReturnToRun its last two GPIO calls drove bootloader-select HIGH with
\* reset LOW and then reset HIGH, so both lines end HIGH.
C19_GpioSequencing ==
    entry = "boot" =>
        /\ pc # "idle" =>
              /\ Truthy(firmware)
              /\ UsesGpio(dev)
              /\ IsPrefix(EnterBootloaderSeq, gpio)
        /\ bpc = "L77" => gpio = EnterBootloaderSeq /\ bslpin = "LOW" /\ rstpin = "HIGH"
        /\ bpc = "ReturnToRun" =>
              /\ SubSeq(gpio, Len(gpio) - 1, Len(gpio)) = ReturnToRunSeq
              /\ bslpin = "HIGH" /\ rstpin = "HIGH"
              /\ Truthy(firmware) => gpio = EnterBootloaderSeq \o ReturnToRunSeq

C19_Witness ==
    /\ entry = "boot"
    /\ bpc = "ReturnToRun"
    /\ pc = "done"
    /\ result = "None"
    /\ gpio = EnterBootloaderSeq \o ReturnToRunSeq

\* C20: the step that follows the chip-id query never fails because of the
\* id: unless the construction of the device object raises a fault, the
\* CC2538 variant is selected for an id of the table and the CC13xx/CC26xx
\* variant for any other id, an unset address becomes the variant's flash
\* start address (a set one is kept), and the run goes on to the next stage.
C20_IdentifyNeverFailsOnId ==
    [][(pc = "L153" /\ result' # "KeyboardInterrupt") =>
          \/ pc' = "L275" /\ err'.type = "Fault" /\ err'.msg \in {"CC2538", "CC26xx"}
          \/ /\ device' = (IF chip_id \in CHIP_ID_STRS THEN "CC2538" ELSE "CC26xx")
             /\ conf'.address = (IF conf.address = None
                                 THEN (IF device' = "CC2538" THEN 2097152 ELSE 0)
                                 ELSE conf.address)
             /\ pc' \in {"L165", "L189", "L199", "L205", "L215", "L235", "L250",
                         "L271", "L273"}
             /\ pc' = "L165" <=> conf.force_speed # 1 /\ device' = "CC2538"
             /\ err' = NoErr]_vars

C20_Witness ==
    /\ Ended
    /\ result = "None"
    /\ err = NoErr
    /\ chip_id \notin CHIP_ID_STRS
    /\ device = "CC26xx"
    /\ conf.address = 0
    /\ Idx("erase", "") # {}

============================================================================
